---------------------------- MODULE Spec2Model ----------------------------
(*
  A model of ts-rename-helper-mcp: the three planners (planRenameSymbol,
  planFileMove, planDirectoryMove) that turn the answers of the TypeScript
  language service into edit plans.

  Paths and file texts are sequences of one-character strings, so that the
  string operations of the code (startsWith, path.resolve, path.relative,
  path.join, the offset/position conversions) are computed, not assumed.
  The language service is an external collaborator: its answers are part of
  the state (renameInfo, locations, reloc) and range over bounded sets.
*)
EXTENDS Integers, Sequences, FiniteSets, TLC

(***************************************************************************)
(* Bounds of the model.                                                    *)
(***************************************************************************)
\* largest span start the language service answers with
MaxOffset == 2
\* largest line / character a rename request asks for
MaxPos == 1
\* longest text the conversions are tried on
MaxLen == 3

(***************************************************************************)
(* Optional values: <<>> is undefined, <<v>> is v.                         *)
(***************************************************************************)
None == <<>>
Some(v) == <<v>>

\* a ?? b
Nullish(a, b) == IF a = None THEN b ELSE a[1]

(***************************************************************************)
(* node:path, POSIX flavour.                                               *)
(***************************************************************************)
Sep == "/"

\* the working directory of the server process
VARIABLE cwd

\* process.cwd()
Cwd == cwd

IsAbsolute(p) == Len(p) > 0 /\ p[1] = Sep

\* s.startsWith(prefix)
StartsWith(s, prefix) ==
  /\ Len(prefix) <= Len(s)
  /\ SubSeq(s, 1, Len(prefix)) = prefix

RECURSIVE SplitFrom(_, _, _, _)
SplitFrom(p, i, cur, acc) ==
  IF i > Len(p)
  THEN (IF cur = <<>> THEN acc ELSE Append(acc, cur))
  ELSE IF p[i] = Sep
       THEN SplitFrom(p, i + 1, <<>>, IF cur = <<>> THEN acc ELSE Append(acc, cur))
       ELSE SplitFrom(p, i + 1, Append(cur, p[i]), acc)

\* the non-empty segments of a path
Split(p) == SplitFrom(p, 1, <<>>, <<>>)

Dot == <<".">>
DotDot == <<".", ".">>

\* normalizeString: drops "." segments, resolves ".." against the segment
\* before it; above the root ".." is dropped, in a relative path it is kept
RECURSIVE NormSegs(_, _, _, _)
NormSegs(segs, i, abs, acc) ==
  IF i > Len(segs) THEN acc
  ELSE IF segs[i] = Dot THEN NormSegs(segs, i + 1, abs, acc)
  ELSE IF segs[i] = DotDot
       THEN IF Len(acc) > 0 /\ acc[Len(acc)] # DotDot
            THEN NormSegs(segs, i + 1, abs, SubSeq(acc, 1, Len(acc) - 1))
            ELSE IF abs THEN NormSegs(segs, i + 1, abs, acc)
                 ELSE NormSegs(segs, i + 1, abs, Append(acc, DotDot))
  ELSE NormSegs(segs, i + 1, abs, Append(acc, segs[i]))

RECURSIVE JoinSegs(_, _)
JoinSegs(segs, i) ==
  IF i > Len(segs) THEN <<>>
  ELSE IF i = Len(segs) THEN segs[i]
  ELSE segs[i] \o <<Sep>> \o JoinSegs(segs, i + 1)

\* path.normalize(p)
Normalize(p) ==
  LET abs == IsAbsolute(p)
      trailing == Len(p) > 0 /\ p[Len(p)] = Sep
      body == JoinSegs(NormSegs(Split(p), 1, abs, <<>>), 1)
  IN IF Len(p) = 0 THEN Dot
     ELSE IF body = <<>>
          THEN (IF abs THEN <<Sep>> ELSE IF trailing THEN <<".", Sep>> ELSE Dot)
          ELSE (IF abs THEN <<Sep>> ELSE <<>>) \o body
               \o (IF trailing THEN <<Sep>> ELSE <<>>)

\* path.resolve(base, p): the rightmost absolute argument wins, the process
\* working directory is the last resort; the result has no trailing separator
Resolve2(base, p) ==
  LET raw == IF IsAbsolute(p) THEN p
             ELSE IF IsAbsolute(base)
                  THEN (IF p = <<>> THEN base ELSE base \o <<Sep>> \o p)
                  ELSE Cwd \o <<Sep>> \o base \o <<Sep>> \o p
  IN <<Sep>> \o JoinSegs(NormSegs(Split(raw), 1, TRUE, <<>>), 1)

\* a variant that takes every path as relative to the working directory
Resolve_UnderCwd(p) ==
  <<Sep>> \o JoinSegs(NormSegs(Split(Cwd \o <<Sep>> \o p), 1, TRUE, <<>>), 1)

\* path.resolve(p)
Resolve(p) == Resolve2(Cwd, p)

RECURSIVE CommonLen(_, _, _)
CommonLen(a, b, i) ==
  IF i > Len(a) \/ i > Len(b) THEN i - 1
  ELSE IF a[i] = b[i] THEN CommonLen(a, b, i + 1) ELSE i - 1

\* path.relative(from, to)
Relative(from, to) ==
  LET f == Split(Resolve(from))
      t == Split(Resolve(to))
      c == CommonLen(f, t, 1)
      ups == [k \in 1 .. (Len(f) - c) |-> DotDot]
  IN JoinSegs(ups \o SubSeq(t, c + 1, Len(t)), 1)

\* path.join(a, b)
Join(a, b) ==
  IF a = <<>> /\ b = <<>> THEN Dot
  ELSE IF a = <<>> THEN Normalize(b)
  ELSE IF b = <<>> THEN Normalize(a)
  ELSE Normalize(a \o <<Sep>> \o b)

(***************************************************************************)
(* The offset/position conversions of the TypeScript library, as the       *)
(* planners call them.                                                     *)
(***************************************************************************)
LF == "\n"
CR == "\r"

\* computeLineStarts: offsets (0-based) at which a line begins
RECURSIVE LineStartsFrom(_, _, _, _)
LineStartsFrom(text, pos, lineStart, acc) ==
  IF pos >= Len(text) THEN Append(acc, lineStart)
  ELSE LET ch == text[pos + 1] IN
       IF ch = CR
       THEN LET next == IF pos + 1 < Len(text) /\ text[pos + 2] = LF
                        THEN pos + 2 ELSE pos + 1
            IN LineStartsFrom(text, next, next, Append(acc, lineStart))
       ELSE IF ch = LF
       THEN LineStartsFrom(text, pos + 1, pos + 1, Append(acc, lineStart))
       ELSE LineStartsFrom(text, pos + 1, lineStart, acc)

LineStarts(text) == LineStartsFrom(text, 0, 0, <<>>)

Max(S) == CHOOSE x \in S : \A y \in S : y <= x

\* a variant that never answers a position after the last character
GetLineAndCharacterOfPosition_LastChar(text, pos) ==
  LET ls == LineStarts(text)
      at == IF pos >= Len(text) /\ Len(text) > 0 THEN Len(text) - 1 ELSE pos
      ln == Max({i \in 1 .. Len(ls) : ls[i] <= at})
  IN [line |-> ln - 1, character |-> at - ls[ln]]

\* ts.getLineAndCharacterOfPosition(createSourceFile(text), pos), pos >= 0:
\* the last line that starts at or before pos; no clamping to the text
GetLineAndCharacterOfPosition(text, pos) ==
  LET ls == LineStarts(text)
      ln == Max({i \in 1 .. Len(ls) : ls[i] <= pos})
  IN [line |-> ln - 1, character |-> pos - ls[ln]]

\* ts.getPositionOfLineAndCharacter(createSourceFile(text), line, character):
\* Debug.fail on a line outside the text, Debug.assert on a character beyond
\* the line; the outcome is [ok, pos]
GetPositionOfLineAndCharacter(text, line, character) ==
  LET ls == LineStarts(text) IN
  IF line < 0 \/ line >= Len(ls)
  THEN [ok |-> FALSE, pos |-> 0]
  ELSE LET p == ls[line + 1] + character IN
       IF line < Len(ls) - 1
       THEN [ok |-> p < ls[line + 2], pos |-> p]
       ELSE [ok |-> p <= Len(text), pos |-> p]

(***************************************************************************)
(* The project the planners are asked about.                               *)
(***************************************************************************)
\* the directory that holds tsconfig.json
ConfigDir == <<"/", "p">>
DirA == <<"/", "p", "/", "a">>
DirAS == <<"/", "p", "/", "a", "/", "s">>
DirA2 == <<"/", "p", "/", "a", "2">>
\* a directory with no tsconfig.json in or above it
DirQ == <<"/", "q">>

FA == <<"/", "p", "/", "a", "/", "f">>
FAS == <<"/", "p", "/", "a", "/", "s", "/", "g">>
FA2 == <<"/", "p", "/", "a", "2", "/", "f">>
FM == <<"/", "p", "/", "m">>

Files == {FA, FAS, FA2, FM}
Dirs == {<<"/">>, ConfigDir, DirA, DirAS, DirA2, DirQ}

NoFile == [exists |-> FALSE, text |-> <<>>]
File(t) == [exists |-> TRUE, text |-> t]

\* file texts: two lines, one line, empty
Text2 == <<"x", LF, "x">>
Text1 == <<"x", "x">>
Text0 == <<>>

VARIABLES
  fs,          \* the files on disk: path -> NoFile or File(text)
  tsconfig,    \* "ok", "missing", "malformed" (unreadable JSON), "invalid" (parse errors)
  fileNames,   \* parsedConfig.fileNames when tsconfig is read
  renameInfo,  \* the language service's answer to getRenameInfo
  locations,   \* its answer to findRenameLocations (None: undefined)
  reloc,       \* its answer to getEditsForFileRename, per moved file
  call,        \* the request being answered
  res,         \* what the planner did: returned a value or threw
  log,         \* the language-service queries the planner made, in order
  prev         \* an earlier request, its answer and the working directory then

vars == <<cwd, fs, tsconfig, fileNames, renameInfo, locations, reloc, call, res,
          log, prev>>

env == <<cwd, fs, tsconfig, fileNames, renameInfo, locations, reloc>>

NoCall == [op |-> "none"]
NoRes == [kind |-> "none"]
NoPrev == [call |-> NoCall]
Return(v) == [kind |-> "return", value |-> v]
Throw(e) == [kind |-> "throw", error |-> e]

(***************************************************************************)
(* node:fs and ts.sys                                                      *)
(***************************************************************************)
\* fs.existsSync(p): true of files and of directories
ExistsSync(p) == \/ p \in Dirs
                 \/ p \in Files /\ fs[p].exists

\* fs.readFileSync(p, "utf8"): throws on a missing path and on a directory
ReadFileSync(p) ==
  IF p \in Files /\ fs[p].exists
  THEN [ok |-> TRUE, text |-> fs[p].text]
  ELSE [ok |-> FALSE, text |-> <<>>]

\* ts.sys.readFile(p): undefined (None) when the file cannot be read
SysReadFile(p) ==
  IF p \in Files /\ fs[p].exists THEN Some(fs[p].text) ELSE None

\* !fileText: undefined and the empty string are both falsy
Falsy(t) == t = None \/ t[1] = <<>>

(***************************************************************************)
(* tsService.ts                                                            *)
(***************************************************************************)
\* ts.findConfigFile(absProjectRoot, fileExists, "tsconfig.json"): searches
\* the directory and its ancestors
FindConfigFile(absProjectRoot) ==
  /\ tsconfig # "missing"
  /\ \/ absProjectRoot = ConfigDir
     \/ StartsWith(absProjectRoot, ConfigDir \o <<Sep>>)

\* createTsService(projectRoot): the service and the parsed configuration,
\* or one of its three errors
CreateTsService(projectRoot) ==
  LET absProjectRoot == Resolve(projectRoot) IN
  IF ~FindConfigFile(absProjectRoot)
  THEN [ok |-> FALSE,
        error |-> <<"tsconfig.json not found in or above: ", absProjectRoot>>]
  ELSE IF tsconfig = "malformed"
  THEN [ok |-> FALSE, error |-> <<"Failed to read tsconfig.json: ", ConfigDir>>]
  ELSE IF tsconfig = "invalid"
  THEN [ok |-> FALSE, error |-> <<"Failed to parse tsconfig.json: ", ConfigDir>>]
  ELSE [ok |-> TRUE, projectRoot |-> absProjectRoot, fileNames |-> fileNames]

(***************************************************************************)
(* Map<string, TextEdit[]>: entries in insertion order                     *)
(***************************************************************************)
MapHas(m, k) == \E i \in 1 .. Len(m) : m[i].filePath = k

\* m.get(k) ?? []
MapGetOrEmpty(m, k) ==
  IF MapHas(m, k)
  THEN m[CHOOSE i \in 1 .. Len(m) : m[i].filePath = k].textEdits
  ELSE <<>>

\* m.set(k, v): an existing key keeps its place
MapSet(m, k, v) ==
  IF MapHas(m, k)
  THEN [i \in 1 .. Len(m) |->
          IF m[i].filePath = k THEN [filePath |-> k, textEdits |-> v] ELSE m[i]]
  ELSE Append(m, [filePath |-> k, textEdits |-> v])

\* a variant that takes the span's length for its end offset
SpanRange_LengthAsEnd(text, span) ==
  LET s == GetLineAndCharacterOfPosition(text, span.start)
      e == GetLineAndCharacterOfPosition(text, span.length)
  IN [start |-> [line |-> s.line, character |-> s.character],
      end |-> [line |-> e.line, character |-> e.character]]

\* the Range of a span against a text
SpanRange(text, span) ==
  LET s == GetLineAndCharacterOfPosition(text, span.start)
      e == GetLineAndCharacterOfPosition(text, span.start + span.length)
  IN [start |-> [line |-> s.line, character |-> s.character],
      end |-> [line |-> e.line, character |-> e.character]]

(***************************************************************************)
(* planRenameSymbol.ts                                                     *)
(***************************************************************************)
\* step 3: filePath against the project root
RenameAbsFilePath(params) ==
  IF IsAbsolute(params.filePath) THEN params.filePath
  ELSE Resolve2(Resolve(params.projectRoot), params.filePath)

\* a variant that reads the file without asking whether it exists
FileNotFoundResult_Unchecked(absFilePath) ==
  Throw(<<"ENOENT: no such file or directory">>)

\* step 4: the target file does not exist
FileNotFoundResult(absFilePath) ==
  Return([canRename |-> FALSE, reason |-> <<"File not found: ", absFilePath>>])

\* a variant that drops the language service's own explanation
NotRenameableResult_Generic(info) ==
  Return([canRename |-> FALSE, reason |-> <<"Cannot rename this symbol">>])

\* step 6: the symbol is not renameable
NotRenameableResult(info) ==
  Return([canRename |-> FALSE,
          reason |-> Nullish(info.localizedErrorMessage,
                             <<"Cannot rename this symbol">>)])

\* a variant that treats every flag that is not true as not given, and
\* defaults to true
FlagOrFalse_DefaultTrue(flag) == IF flag = Some(TRUE) \/ flag = None THEN TRUE ELSE FALSE

\* a flag that was not given is passed as false
FlagOrFalse(flag) == Nullish(flag, FALSE)

\* steps 7: the findRenameLocations query
FindRenameLocationsQuery(params, absFilePath, pos) ==
  [q |-> "findRenameLocations", fileName |-> absFilePath, position |-> pos,
   findInStrings |-> FlagOrFalse(params.findInStrings),
   findInComments |-> FlagOrFalse(params.findInComments),
   providePrefixAndSuffixTextForRename |-> FALSE]

\* a variant that reads a location's file without asking whether it exists
RenameConvertLocation_Unchecked(editsByFile, location, newName) ==
  LET rd == ReadFileSync(location.fileName) IN
  IF ~rd.ok THEN [ok |-> FALSE, map |-> editsByFile]
  ELSE LET textEdit == [range |-> SpanRange(rd.text, location.textSpan),
                        newText |-> newName]
           edits == Append(MapGetOrEmpty(editsByFile, location.fileName), textEdit)
       IN [ok |-> TRUE, map |-> MapSet(editsByFile, location.fileName, edits)]

\* step 8, one location: [ok, map]; not ok when readFileSync throws
RenameConvertLocation(editsByFile, location, newName) ==
  IF ~ExistsSync(location.fileName)
  THEN [ok |-> TRUE, map |-> editsByFile]
  ELSE LET rd == ReadFileSync(location.fileName) IN
       IF ~rd.ok THEN [ok |-> FALSE, map |-> editsByFile]
       ELSE LET textEdit == [range |-> SpanRange(rd.text, location.textSpan),
                             newText |-> newName]
                edits == Append(MapGetOrEmpty(editsByFile, location.fileName), textEdit)
            IN [ok |-> TRUE, map |-> MapSet(editsByFile, location.fileName, edits)]

\* step 8: the loop over the locations
RECURSIVE RenameConvertAll(_, _, _, _)
RenameConvertAll(locs, i, editsByFile, newName) ==
  IF i > Len(locs) THEN [ok |-> TRUE, map |-> editsByFile]
  ELSE LET one == RenameConvertLocation(editsByFile, locs[i], newName) IN
       IF ~one.ok THEN one
       ELSE RenameConvertAll(locs, i + 1, one.map, newName)

\* a variant that lets createTsService's exception through
RenameServiceFailure_Uncaught(message) == Throw(message)

\* the catch around createTsService: the error's message becomes the reason
RenameServiceFailure(message) ==
  Return([canRename |-> FALSE, reason |-> message])

\* planRenameSymbol(params): [res, log]
PlanRenameSymbolRun(params) ==
  LET svc == CreateTsService(Resolve(params.projectRoot))
      absFilePath == RenameAbsFilePath(params)
  IN
  IF ~svc.ok
  THEN [res |-> RenameServiceFailure(svc.error), log |-> <<>>]
  ELSE IF ~ExistsSync(absFilePath)
  THEN [res |-> FileNotFoundResult(absFilePath), log |-> <<>>]
  ELSE LET rd == ReadFileSync(absFilePath) IN
  IF ~rd.ok
  THEN [res |-> Throw(<<"EISDIR: illegal operation on a directory, read">>),
        log |-> <<>>]
  ELSE LET p == GetPositionOfLineAndCharacter(rd.text, params.line, params.character) IN
  IF ~p.ok
  THEN [res |-> Throw(<<"Debug Failure.">>), log |-> <<>>]
  ELSE LET q1 == [q |-> "getRenameInfo", fileName |-> absFilePath, position |-> p.pos] IN
  IF ~renameInfo.canRename
  THEN [res |-> NotRenameableResult(renameInfo), log |-> <<q1>>]
  ELSE LET q2 == FindRenameLocationsQuery(params, absFilePath, p.pos)
           locs == Nullish(locations, <<>>)
           conv == RenameConvertAll(locs, 1, <<>>, params.newName)
       IN
       IF ~conv.ok
       THEN [res |-> Throw(<<"ENOENT: no such file or directory">>), log |-> <<q1, q2>>]
       ELSE [res |-> Return([canRename |-> TRUE, edits |-> conv.map]),
             log |-> <<q1, q2>>]

(***************************************************************************)
(* The language service's relocation answer.                               *)
(***************************************************************************)
\* service.getEditsForFileRename(oldAbs, newAbs): one FileTextChanges per
\* file that refers to oldAbs; the replacement text names the new place
GetEditsForFileRename(oldAbs, newAbs) ==
  IF oldAbs \notin Files THEN <<>>
  ELSE [i \in 1 .. Len(reloc[oldAbs]) |->
          [fileName |-> reloc[oldAbs][i].fileName,
           textChanges |->
             [k \in 1 .. Len(reloc[oldAbs][i].spans) |->
                [span |-> reloc[oldAbs][i].spans[k], newText |-> newAbs]]]]

(***************************************************************************)
(* planFileMove.ts                                                         *)
(***************************************************************************)
\* a variant that hands the request's path on as given
MoveAbsPath_Raw(projectRoot, p) == p

\* step 2: oldPath / newPath against the project root
MoveAbsPath(projectRoot, p) ==
  IF IsAbsolute(p) THEN p ELSE Resolve2(Resolve(projectRoot), p)

\* step 5, one text change of a file whose text is fileText (None: unread)
FileMoveTextEdit(fileText, textChange) ==
  IF Falsy(fileText)
  THEN [range |-> [start |-> [line |-> 0, character |-> textChange.span.start],
                   end |-> [line |-> 0,
                            character |-> textChange.span.start
                                            + textChange.span.length]],
        newText |-> textChange.newText]
  ELSE [range |-> SpanRange(fileText[1], textChange.span),
        newText |-> textChange.newText]

\* a variant that lists a file's edits from the last replacement to the first
FileMoveFileEdits_Reversed(change) ==
  LET fileText == SysReadFile(change.fileName)
      n == Len(change.textChanges)
  IN [filePath |-> change.fileName,
      textEdits |-> [k \in 1 .. n |->
                       FileMoveTextEdit(fileText, change.textChanges[n + 1 - k])]]

\* a variant that keeps one of several edits with the same range
FileMoveFileEdits_Deduplicated(change) ==
  LET fileText == SysReadFile(change.fileName)
      all == [k \in 1 .. Len(change.textChanges) |->
                FileMoveTextEdit(fileText, change.textChanges[k])]
      kept == {k \in 1 .. Len(all) : \A l \in 1 .. k - 1 : all[l].range # all[k].range}
  IN [filePath |-> change.fileName,
      textEdits |-> IF kept = DOMAIN all THEN all
                    ELSE [k \in 1 .. 1 |-> all[1]]]

\* step 5, one FileTextChanges: the file is read once
FileMoveFileEdits(change) ==
  LET fileText == SysReadFile(change.fileName) IN
  [filePath |-> change.fileName,
   textEdits |-> [k \in 1 .. Len(change.textChanges) |->
                    FileMoveTextEdit(fileText, change.textChanges[k])]]

\* a variant that reports no move when the file stays where it is
FileMoveFsMoves_SkipNoOp(oldAbs, newAbs) ==
  IF oldAbs = newAbs THEN <<>> ELSE <<[from |-> oldAbs, to |-> newAbs]>>

\* step 6: the one move record
FileMoveFsMoves(oldAbs, newAbs) == <<[from |-> oldAbs, to |-> newAbs]>>

\* a variant that answers a failed construction with an empty plan
MoveServiceFailure_EmptyPlan(error) ==
  Return([edits |-> <<>>, fsMoves |-> <<>>])

\* createTsService is called outside any try: its exception leaves the
\* move planners
MoveServiceFailure(error) == Throw(error)

\* planFileMove(params): [res, log]
PlanFileMoveRun(params) ==
  LET oldAbs == MoveAbsPath(params.projectRoot, params.oldPath)
      newAbs == MoveAbsPath(params.projectRoot, params.newPath)
      svc == CreateTsService(Resolve(params.projectRoot))
  IN
  IF ~svc.ok THEN [res |-> MoveServiceFailure(svc.error), log |-> <<>>]
  ELSE LET fileTextChanges == GetEditsForFileRename(oldAbs, newAbs)
           q == [q |-> "getEditsForFileRename", oldPath |-> oldAbs, newPath |-> newAbs]
       IN [res |-> Return([edits |-> [i \in 1 .. Len(fileTextChanges) |->
                                        FileMoveFileEdits(fileTextChanges[i])],
                           fsMoves |-> FileMoveFsMoves(oldAbs, newAbs)]),
           log |-> <<q>>]

(***************************************************************************)
(* planDirectoryMove.ts                                                    *)
(***************************************************************************)
\* step 1: oldDir / newDir against the project root
DirAbsPath(projectRoot, d) ==
  IF IsAbsolute(d) THEN Resolve(d) ELSE Resolve2(Resolve(projectRoot), d)

\* a variant that forgets the separator
IsUnderOldDir_NoSep(file, oldDirAbs) ==
  StartsWith(Normalize(file), Normalize(oldDirAbs))

\* step 3: the filter's test
IsUnderOldDir(file, oldDirAbs) ==
  StartsWith(Normalize(file), Normalize(oldDirAbs) \o <<Sep>>)

\* step 3: the files of the project under oldDir, in the project's order
TargetFiles(names, oldDirAbs) ==
  SelectSeq(names, LAMBDA file : IsUnderOldDir(file, oldDirAbs))

\* a variant that keeps only the file's name
DestinationOf_Flat(oldDirAbs, newDirAbs, oldFile) ==
  LET segs == Split(oldFile) IN Join(newDirAbs, segs[Len(segs)])

\* step 4: the file's place under newDir
DestinationOf(oldDirAbs, newDirAbs, oldFile) ==
  Join(newDirAbs, Relative(oldDirAbs, oldFile))

\* step 6, the text changes of one FileTextChanges: the file is read for
\* each text change, and a change whose file has no text is left out
RECURSIVE DirConvertChanges(_, _, _, _)
DirConvertChanges(existingEdits, fileName, textChanges, k) ==
  IF k > Len(textChanges) THEN existingEdits
  ELSE LET fileText == SysReadFile(fileName) IN
       IF Falsy(fileText)
       THEN DirConvertChanges(existingEdits, fileName, textChanges, k + 1)
       ELSE DirConvertChanges(
              Append(existingEdits,
                     [range |-> SpanRange(fileText[1], textChanges[k].span),
                      newText |-> textChanges[k].newText]),
              fileName, textChanges, k + 1)

\* a variant that starts every file's list afresh
DirExistingEdits_Fresh(editsMap, fileName) == <<>>

\* editsMap.get(fileName) ?? []
DirExistingEdits(editsMap, fileName) == MapGetOrEmpty(editsMap, fileName)

\* step 6: the FileTextChanges of one sub-move merged into the map
RECURSIVE DirMergeChanges(_, _, _)
DirMergeChanges(editsMap, fileTextChanges, j) ==
  IF j > Len(fileTextChanges) THEN editsMap
  ELSE LET change == fileTextChanges[j]
           existingEdits == DirExistingEdits(editsMap, change.fileName)
           merged == DirConvertChanges(existingEdits, change.fileName,
                                       change.textChanges, 1)
       IN DirMergeChanges(MapSet(editsMap, change.fileName, merged),
                          fileTextChanges, j + 1)

\* a variant that builds a session for each target file
DirSessionFor_PerFile(i) == i

\* the session that serves the i-th target file: sessions are numbered in
\* the order createTsService builds them during the call, and the loop
\* uses the one built before it
DirSessionFor(i) == 1

\* steps 4-7: the loop over the target files; [editsMap, fsMoves, log]
RECURSIVE DirMoveLoop(_, _, _, _, _)
DirMoveLoop(targetFiles, i, acc, oldDirAbs, newDirAbs) ==
  IF i > Len(targetFiles) THEN acc
  ELSE LET oldFile == targetFiles[i]
           newFile == DestinationOf(oldDirAbs, newDirAbs, oldFile)
           fileTextChanges == GetEditsForFileRename(oldFile, newFile)
           q == [q |-> "getEditsForFileRename", oldPath |-> oldFile, newPath |-> newFile,
                 session |-> DirSessionFor(i)]
       IN DirMoveLoop(targetFiles, i + 1,
                      [editsMap |-> DirMergeChanges(acc.editsMap, fileTextChanges, 1),
                       fsMoves |-> Append(acc.fsMoves, [from |-> oldFile, to |-> newFile]),
                       log |-> Append(acc.log, q)],
                      oldDirAbs, newDirAbs)

\* a variant that refuses a directory with nothing to move
DirMoveResult_RefuseEmpty(edits, fsMoves) ==
  IF fsMoves = <<>> THEN Throw(<<"No files found in directory">>)
  ELSE Return([edits |-> edits, fsMoves |-> fsMoves])

\* step 8
DirMoveResult(edits, fsMoves) == Return([edits |-> edits, fsMoves |-> fsMoves])

\* planDirectoryMove(params): [res, log]
PlanDirectoryMoveRun(params) ==
  LET oldDirAbs == DirAbsPath(params.projectRoot, params.oldDir)
      newDirAbs == DirAbsPath(params.projectRoot, params.newDir)
      svc == CreateTsService(Resolve(params.projectRoot))
  IN
  IF ~svc.ok THEN [res |-> MoveServiceFailure(svc.error), log |-> <<>>]
  ELSE LET done == DirMoveLoop(TargetFiles(svc.fileNames, oldDirAbs), 1,
                               [editsMap |-> <<>>, fsMoves |-> <<>>, log |-> <<>>],
                               oldDirAbs, newDirAbs)
       IN [res |-> DirMoveResult(done.editsMap, done.fsMoves), log |-> done.log]

(***************************************************************************)
(* Requests and answers the model ranges over.                             *)
(***************************************************************************)
Flags == {None, Some(TRUE), Some(FALSE)}

NewName == <<"N">>

\* project roots: absolute, relative to the working directory, without tsconfig
ProjectRoots == {ConfigDir, <<"p">>, DirQ}

\* target files: relative, absolute, missing, a directory
RenameFilePaths == {<<"a", "/", "f">>, FM, <<"n">>, <<"a">>}

RenameParams ==
  [projectRoot : ProjectRoots, filePath : RenameFilePaths,
   line : 0 .. MaxPos, character : 0 .. MaxPos, newName : {NewName},
   findInStrings : Flags, findInComments : Flags]

Span(s, l) == [start |-> s, length |-> l]
Loc(f, s) == [fileName |-> f, textSpan |-> Span(s, 1)]

RenameInfos ==
  {[canRename |-> TRUE, localizedErrorMessage |-> None],
   [canRename |-> FALSE, localizedErrorMessage |-> None],
   [canRename |-> FALSE,
    localizedErrorMessage |-> Some(<<"You cannot rename this element.">>)]}

LocationAnswers ==
  {None, Some(<<>>)}
  \cup {Some(<<Loc(FA, s)>>) : s \in 0 .. MaxOffset}
  \cup {Some(<<Loc(FM, s), Loc(FA, 0), Loc(FM, 0)>>) : s \in 0 .. MaxOffset}

\* every project file exists with one line of text
NominalFs == [f \in Files |-> File(Text1)]

NominalFileNames == <<FAS, FA, FA2, FM>>

NoReloc == [f \in Files |-> <<>>]

(***************************************************************************)
(* The rename planner alone.                                               *)
(***************************************************************************)
InitRename ==
  /\ tsconfig \in {"ok", "missing", "malformed", "invalid"}
  /\ fs \in {[NominalFs EXCEPT ![FA] = a, ![FM] = m] :
               a \in {NoFile, File(Text1), File(Text2)},
               m \in {NoFile, File(Text2)}}
  /\ renameInfo \in RenameInfos
  /\ locations \in LocationAnswers
  \* what a failed construction never reads is left at one value
  /\ tsconfig # "ok" =>
       /\ fs = NominalFs
       /\ renameInfo = [canRename |-> TRUE, localizedErrorMessage |-> None]
       /\ locations = None
  /\ fileNames = NominalFileNames
  /\ reloc = NoReloc
  /\ cwd = <<Sep>>
  /\ call = NoCall
  /\ res = NoRes
  /\ log = <<>>
  /\ prev = NoPrev

\* the planners are synchronous: a request is answered before the next one
\* is taken
Idle == call = NoCall

\* the caller takes the answer
Respond ==
  /\ ~Idle
  /\ call' = NoCall
  /\ res' = NoRes
  /\ log' = <<>>
  /\ UNCHANGED <<env, prev>>

PlanRenameSymbol ==
  \E params \in RenameParams :
    LET run == PlanRenameSymbolRun(params) IN
    /\ Idle
    /\ call' = [op |-> "planRenameSymbol", params |-> params]
    /\ res' = run.res
    /\ log' = run.log
    /\ UNCHANGED <<env, prev>>

NextRename == PlanRenameSymbol \/ Respond

SpecRename == InitRename /\ [][NextRename]_vars

(***************************************************************************)
(* The two move planners.                                                  *)
(***************************************************************************)
\* old paths: relative, absolute, an importer, a path outside the project
OldPaths == {<<"a", "/", "f">>, FA, FM, <<"n">>}

\* new paths: the old place (relative and absolute), a new directory
NewPaths == {<<"a", "/", "f">>, FA, <<"b", "/", "h">>}

FileMoveParams == [projectRoot : ProjectRoots, oldPath : OldPaths, newPath : NewPaths]

\* old directories: relative, absolute with a trailing separator, the
\* sibling with the longer name, nested, the project root, the filesystem
\* root, a directory that does not exist
OldDirs == {<<"a">>, DirA \o <<Sep>>, DirA2, <<"a", "/", "s">>, ConfigDir,
            <<Sep>>, <<"z">>}

\* new directories: a new sibling, a descendant of a, a itself, its parent
NewDirs == {<<"b">>, DirAS, DirA, ConfigDir}

DirMoveParams == [projectRoot : ProjectRoots, oldDir : OldDirs, newDir : NewDirs]

Chg(f, spans) == [fileName |-> f, spans |-> spans]

\* answers for moving a/f: none, two replacements in the importer (in the
\* service's order, coinciding when s = 0), one in the importer and an
\* insertion in the moved file itself, the moved file's own relative
\* import of a/s/g
RelocAnswersFA ==
  {<<>>, <<Chg(FA, <<Span(0, 1)>>)>>}
  \cup {<<Chg(FM, <<Span(s, 1), Span(0, 1)>>)>> : s \in 0 .. MaxOffset}
  \cup {<<Chg(FM, <<Span(s, 1)>>), Chg(FA, <<Span(0, 0)>>)>> : s \in 0 .. MaxOffset}

RelocAnswersFAS ==
  {<<>>, <<Chg(FM, <<Span(1, 1)>>)>>,
   <<Chg(FA, <<Span(0, 1)>>), Chg(FM, <<Span(0, 1)>>)>>}

RelocAnswersFA2 == {<<>>, <<Chg(FM, <<Span(0, 1)>>)>>}

InitMove ==
  /\ tsconfig \in {"ok", "missing", "malformed", "invalid"}
  /\ fs \in {[NominalFs EXCEPT ![FA] = a, ![FM] = m] :
               a \in {NoFile, File(Text1)},
               m \in {NoFile, File(Text0), File(Text2)}}
  /\ fileNames \in {NominalFileNames, <<FM, FA2>>}
  /\ reloc \in {[NoReloc EXCEPT ![FA] = a, ![FAS] = b, ![FA2] = c] :
                  a \in RelocAnswersFA, b \in RelocAnswersFAS,
                  c \in RelocAnswersFA2}
  \* what a failed construction never reads is left at one value
  /\ tsconfig # "ok" =>
       /\ fs = NominalFs
       /\ fileNames = NominalFileNames
       /\ reloc = NoReloc
  \* the short project list is tried on the nominal disk
  /\ fileNames # NominalFileNames =>
       /\ fs = NominalFs
       /\ reloc[FA] = <<>> /\ reloc[FAS] = <<>>
  /\ renameInfo = [canRename |-> TRUE, localizedErrorMessage |-> None]
  /\ locations = None
  /\ cwd = <<Sep>>
  /\ call = NoCall
  /\ res = NoRes
  /\ log = <<>>
  /\ prev = NoPrev

\* a variant that carries the move out on disk
PlanFileMove_Applying ==
  \E params \in FileMoveParams :
    LET run == PlanFileMoveRun(params) IN
    /\ Idle
    /\ call' = [op |-> "planFileMove", params |-> params]
    /\ res' = run.res
    /\ log' = run.log
    /\ fs' = IF run.res.kind = "return" /\ run.res.value.fsMoves[1].from \in Files
             THEN [fs EXCEPT ![run.res.value.fsMoves[1].from] = NoFile]
             ELSE fs
    /\ UNCHANGED <<cwd, tsconfig, fileNames, renameInfo, locations, reloc, prev>>

PlanFileMove ==
  \E params \in FileMoveParams :
    LET run == PlanFileMoveRun(params) IN
    /\ Idle
    /\ call' = [op |-> "planFileMove", params |-> params]
    /\ res' = run.res
    /\ log' = run.log
    /\ UNCHANGED <<env, prev>>

PlanDirectoryMove ==
  \E params \in DirMoveParams :
    LET run == PlanDirectoryMoveRun(params) IN
    /\ Idle
    /\ call' = [op |-> "planDirectoryMove", params |-> params]
    /\ res' = run.res
    /\ log' = run.log
    /\ UNCHANGED <<env, prev>>

NextMove == PlanFileMove \/ PlanDirectoryMove \/ Respond

SpecMove == InitMove /\ [][NextMove]_vars

\* two replacements share a character of the file
SpansOverlap(a, b) ==
  a.start + a.length > b.start /\ b.start + b.length > a.start

\* one answer of the service never holds two replacements of the same
\* characters of a file
DisjointAnswer(answer) ==
  \A j \in 1 .. Len(answer) :
    \A k, l \in 1 .. Len(answer[j].spans) :
      k # l => ~SpansOverlap(answer[j].spans[k], answer[j].spans[l])

\* the move planners over a service whose every answer is disjoint
InitMoveDisjoint ==
  /\ InitMove
  /\ \A f \in Files : DisjointAnswer(reloc[f])

SpecMoveDisjoint == InitMoveDisjoint /\ [][NextMove]_vars

\* the TypeScript change tracker lists the replacements of one file by
\* ascending start, none reaching into the next
SortedAnswer(answer) ==
  \A j \in 1 .. Len(answer) :
    \A k \in 2 .. Len(answer[j].spans) :
      answer[j].spans[k - 1].start + answer[j].spans[k - 1].length
        <= answer[j].spans[k].start

\* answers for moving a/f with two and three replacements in the importer
SortedAnswersFA ==
  {<<>>, <<Chg(FM, <<Span(0, 1), Span(1, 1), Span(MaxOffset, 1)>>)>>}
  \cup {<<Chg(FM, <<Span(0, 1), Span(s, 1)>>), Chg(FA, <<Span(0, 0), Span(s, 1)>>)>> :
          s \in 1 .. MaxOffset}

\* the move planners over the service's answers as the change tracker
\* orders them
InitMoveSorted ==
  /\ tsconfig \in {"ok", "missing"}
  /\ fs \in {[NominalFs EXCEPT ![FA] = a, ![FM] = m] :
               a \in {File(Text1), File(Text2)},
               m \in {NoFile, File(Text0), File(Text1), File(Text2)}}
  /\ fileNames = NominalFileNames
  /\ reloc \in {[NoReloc EXCEPT ![FA] = a] : a \in SortedAnswersFA}
  /\ \A f \in Files : SortedAnswer(reloc[f])
  /\ tsconfig # "ok" => fs = NominalFs /\ reloc = NoReloc
  /\ renameInfo = [canRename |-> TRUE, localizedErrorMessage |-> None]
  /\ locations = None
  /\ cwd = <<Sep>>
  /\ call = NoCall
  /\ res = NoRes
  /\ log = <<>>
  /\ prev = NoPrev

SpecMoveSorted == InitMoveSorted /\ [][NextMove]_vars

\* answers for moving a/f that break the service's contract: a second
\* replacement inside the first (s = 0, 1), or after it (s = 2)
OverlappingAnswersFA ==
  {<<Chg(FM, <<Span(0, 2), Span(s, 1)>>)>> : s \in 0 .. MaxOffset}

\* the move planners over such answers
InitMoveOverlap ==
  /\ tsconfig = "ok"
  /\ fs \in {[NominalFs EXCEPT ![FM] = m] : m \in {NoFile, File(Text1), File(Text2)}}
  /\ fileNames = NominalFileNames
  /\ reloc \in {[NoReloc EXCEPT ![FA] = a] : a \in OverlappingAnswersFA}
  /\ renameInfo = [canRename |-> TRUE, localizedErrorMessage |-> None]
  /\ locations = None
  /\ cwd = <<Sep>>
  /\ call = NoCall
  /\ res = NoRes
  /\ log = <<>>
  /\ prev = NoPrev

SpecMoveOverlap == InitMoveOverlap /\ [][NextMove]_vars

(***************************************************************************)
(* The three planners in one server process: a request, then the same      *)
(* request again, possibly from another working directory.                 *)
(***************************************************************************)
\* working directories of the server: the filesystem root, a directory
\* beside the project
WorkingDirs == {<<Sep>>, DirQ}

\* the tool dispatch of the request handler
RunOf(c) ==
  CASE c.op = "planRenameSymbol" -> PlanRenameSymbolRun(c.params)
    [] c.op = "planFileMove" -> PlanFileMoveRun(c.params)
    [] c.op = "planDirectoryMove" -> PlanDirectoryMoveRun(c.params)

InitAll ==
  \E s \in 0 .. MaxOffset :
    /\ tsconfig \in {"ok", "missing"}
    /\ fs \in {[NominalFs EXCEPT ![FM] = m] : m \in {NoFile, File(Text2)}}
    /\ fileNames = NominalFileNames
    /\ renameInfo = [canRename |-> TRUE, localizedErrorMessage |-> None]
    /\ locations = Some(<<Loc(FM, s), Loc(FA, 0), Loc(FM, 0)>>)
    /\ reloc = [NoReloc EXCEPT
                  ![FA] = <<Chg(FM, <<Span(s, 1), Span(0, 1)>>),
                            Chg(FA, <<Span(0, 0)>>)>>,
                  ![FAS] = <<Chg(FM, <<Span(1, 1)>>)>>]
    /\ tsconfig # "ok" => fs[FM].exists /\ s = 0
    /\ cwd = <<Sep>>
    /\ call = NoCall
    /\ res = NoRes
    /\ log = <<>>
    /\ prev = NoPrev

\* the caller takes the answer and keeps it
RespondKeep ==
  /\ ~Idle
  /\ prev' = [call |-> call, res |-> res, cwd |-> cwd]
  /\ call' = NoCall
  /\ res' = NoRes
  /\ log' = <<>>
  /\ UNCHANGED env

\* the server runs in the working directory of the client that starts it
Chdir ==
  /\ Idle
  /\ \E d \in WorkingDirs : d # cwd /\ cwd' = d
  /\ UNCHANGED <<fs, tsconfig, fileNames, renameInfo, locations, reloc, call,
                 res, log, prev>>

\* a variant that answers a repeated request from the answer it gave before
Repeat_Cached ==
  /\ Idle
  /\ prev.call # NoCall
  /\ call' = prev.call
  /\ res' = prev.res
  /\ log' = <<>>
  /\ UNCHANGED <<env, prev>>

\* the earlier request is sent again
Repeat ==
  LET run == RunOf(prev.call) IN
  /\ Idle
  /\ prev.call # NoCall
  /\ call' = prev.call
  /\ res' = run.res
  /\ log' = run.log
  /\ UNCHANGED <<env, prev>>

NextAll ==
  \/ prev.call = NoCall /\ PlanRenameSymbol
  \/ prev.call = NoCall /\ PlanFileMove
  \/ prev.call = NoCall /\ PlanDirectoryMove
  \/ RespondKeep
  \/ Chdir
  \/ Repeat

SpecAll == InitAll /\ [][NextAll]_vars

(***************************************************************************)
(* planRenameSymbol step by step, one file access at a time, while another *)
(* process removes or rewrites files.  The call record holds the planner's *)
(* position (pc), the index of the location at hand (i) and editsByFile.   *)
(***************************************************************************)
\* requests whose position lies in every text the target file may have
RaceParams ==
  {p \in RenameParams :
     /\ p.projectRoot = ConfigDir
     /\ p.filePath \in {FM, <<"a", "/", "f">>}
     /\ p.line = 0
     /\ p.findInStrings = None /\ p.findInComments = None}

\* occurrences in the importer (two of them, at offsets whose position
\* depends on the text) and in a/f
RaceLocations ==
  {Some(<<Loc(FM, MaxOffset), Loc(FA, 0), Loc(FM, 1)>>),
   Some(<<Loc(FA, 1), Loc(FM, 0)>>)}

InitRace ==
  /\ tsconfig = "ok"
  /\ fs \in {[NominalFs EXCEPT ![FM] = m] : m \in {File(Text1), File(Text2)}}
  /\ fileNames = NominalFileNames
  /\ renameInfo = [canRename |-> TRUE, localizedErrorMessage |-> None]
  /\ locations \in RaceLocations
  /\ reloc = NoReloc
  /\ cwd = <<Sep>>
  /\ call = NoCall
  /\ res = NoRes
  /\ log = <<>>
  /\ prev = NoPrev

InCall == call # NoCall /\ call.op = "planRenameSymbol" /\ call.pc # "done"

\* steps 1-3: the service is built and the target path resolved
RaceBegin ==
  \E params \in RaceParams :
    /\ Idle
    /\ call' = [op |-> "planRenameSymbol", params |-> params, pc |-> "exists",
                i |-> 0, editsByFile |-> <<>>, deleted |-> FALSE,
                rewritten |-> FALSE]
    /\ res' = NoRes
    /\ log' = <<>>
    /\ UNCHANGED <<env, prev>>

\* step 4: fs.existsSync(absFilePath)
RaceTargetExists ==
  LET absFilePath == RenameAbsFilePath(call.params) IN
  /\ InCall /\ call.pc = "exists"
  /\ IF ExistsSync(absFilePath)
     THEN call' = [call EXCEPT !.pc = "read"] /\ res' = res
     ELSE call' = [call EXCEPT !.pc = "done"] /\ res' = FileNotFoundResult(absFilePath)
  /\ UNCHANGED <<env, log, prev>>

\* steps 4-7: fs.readFileSync(absFilePath), the position, getRenameInfo
\* and findRenameLocations
RaceTargetRead ==
  LET absFilePath == RenameAbsFilePath(call.params)
      rd == ReadFileSync(absFilePath)
      p == GetPositionOfLineAndCharacter(rd.text, call.params.line,
                                         call.params.character)
      q1 == [q |-> "getRenameInfo", fileName |-> absFilePath, position |-> p.pos]
      q2 == FindRenameLocationsQuery(call.params, absFilePath, p.pos)
  IN
  /\ InCall /\ call.pc = "read"
  /\ IF ~rd.ok
     THEN /\ call' = [call EXCEPT !.pc = "done"]
          /\ res' = Throw(<<"ENOENT: no such file or directory">>)
          /\ log' = log
     ELSE IF ~p.ok
     THEN /\ call' = [call EXCEPT !.pc = "done"]
          /\ res' = Throw(<<"Debug Failure.">>)
          /\ log' = log
     ELSE IF ~renameInfo.canRename
     THEN /\ call' = [call EXCEPT !.pc = "done"]
          /\ res' = NotRenameableResult(renameInfo)
          /\ log' = <<q1>>
     ELSE /\ call' = [call EXCEPT !.pc = "location", !.i = 1]
          /\ res' = res
          /\ log' = <<q1, q2>>
  /\ UNCHANGED <<env, prev>>

\* step 8, top of the loop: the loop ends, or fs.existsSync(fileName)
RaceLocationExists ==
  LET locs == Nullish(locations, <<>>) IN
  /\ InCall /\ call.pc = "location"
  /\ IF call.i > Len(locs)
     THEN /\ call' = [call EXCEPT !.pc = "done"]
          /\ res' = Return([canRename |-> TRUE, edits |-> call.editsByFile])
     ELSE IF ~ExistsSync(locs[call.i].fileName)
     THEN call' = [call EXCEPT !.i = call.i + 1] /\ res' = res
     ELSE call' = [call EXCEPT !.pc = "locationRead"] /\ res' = res
  /\ UNCHANGED <<env, log, prev>>

\* step 8, rest of the body: fs.readFileSync(fileName), the conversion,
\* the push under the file's name
RaceLocationRead ==
  LET location == Nullish(locations, <<>>)[call.i]
      rd == ReadFileSync(location.fileName)
      textEdit == [range |-> SpanRange(rd.text, location.textSpan),
                   newText |-> call.params.newName]
      edits == Append(MapGetOrEmpty(call.editsByFile, location.fileName), textEdit)
  IN
  /\ InCall /\ call.pc = "locationRead"
  /\ IF ~rd.ok
     THEN /\ call' = [call EXCEPT !.pc = "done"]
          /\ res' = Throw(<<"ENOENT: no such file or directory">>)
     ELSE /\ call' = [call EXCEPT !.pc = "location", !.i = call.i + 1,
                                  !.editsByFile = MapSet(call.editsByFile,
                                                         location.fileName, edits)]
          /\ res' = res
  /\ UNCHANGED <<env, log, prev>>

\* another process removes the importer while the planner runs
RaceDelete ==
  /\ InCall
  /\ fs[FM].exists
  /\ fs' = [fs EXCEPT ![FM] = NoFile]
  /\ call' = [call EXCEPT !.deleted = TRUE]
  /\ UNCHANGED <<cwd, tsconfig, fileNames, renameInfo, locations, reloc, res,
                 log, prev>>

\* another process rewrites the importer while the planner runs
RaceRewrite ==
  /\ InCall
  /\ fs[FM].exists
  /\ \E t \in {Text1, Text2} :
       /\ fs[FM].text # t
       /\ fs' = [fs EXCEPT ![FM] = File(t)]
  /\ call' = [call EXCEPT !.rewritten = TRUE]
  /\ UNCHANGED <<cwd, tsconfig, fileNames, renameInfo, locations, reloc, res,
                 log, prev>>

\* the caller takes the answer of a finished call
RaceRespond == call # NoCall /\ call.pc = "done" /\ Respond

NextRace ==
  \/ RaceBegin
  \/ RaceTargetExists
  \/ RaceTargetRead
  \/ RaceLocationExists
  \/ RaceLocationRead
  \/ RaceDelete
  \/ RaceRewrite
  \/ RaceRespond

SpecRace == InitRace /\ [][NextRace]_vars

(***************************************************************************)
(* Calls one after another while another process edits the importer.       *)
(***************************************************************************)
\* between two calls the importer is rewritten, emptied of a line, or removed
ExternalWrite ==
  /\ Idle
  /\ \E t \in {NoFile, File(Text1), File(Text2)} :
       /\ fs[FM] # t
       /\ fs' = [fs EXCEPT ![FM] = t]
  /\ UNCHANGED <<cwd, tsconfig, fileNames, renameInfo, locations, reloc, call,
                 res, log, prev>>

NextCalls ==
  \/ prev.call = NoCall /\ PlanRenameSymbol
  \/ prev.call = NoCall /\ PlanFileMove
  \/ prev.call = NoCall /\ PlanDirectoryMove
  \/ Respond
  \/ RespondKeep
  \/ Repeat
  \/ ExternalWrite

SpecCalls == InitAll /\ [][NextCalls]_vars

(***************************************************************************)
(* index.ts: the handler of tool calls.                                    *)
(***************************************************************************)
\* JSON.stringify(v, null, 2): the text that denotes v
JsonStringify(v) == [json |-> v]

\* tool names a client sends: the three planners and one the server does
\* not have
ToolNames == {"planRenameSymbol", "planFileMove", "planDirectoryMove", "planNothing"}

\* arguments without any field
NoArgs == [none |-> TRUE]

\* the arguments a client sends with a tool name
ToolArgs(name) ==
  {NoArgs} \cup
  (CASE name = "planRenameSymbol" -> RenameParams
     [] name = "planFileMove" -> FileMoveParams
     [] name = "planDirectoryMove" -> DirMoveParams
     [] OTHER -> {})

\* the planner called with the arguments cast to its parameter type; with
\* no projectRoot in them path.resolve raises a TypeError
PlannerOutcome(name, args) ==
  IF args = NoArgs
  THEN Throw(<<"The \"paths[0]\" argument must be of type string. Received undefined">>)
  ELSE RunOf([op |-> name, params |-> args]).res

\* a variant that lets a planner's error leave the handler
ToolFailure_Rejected(message) == Throw(message)

\* the catch of the handler
ToolFailure(message) ==
  [kind |-> "response", isError |-> TRUE,
   text |-> JsonStringify([error |-> message])]

\* the handler: the switch on the tool name inside try/catch
HandleCallTool(name, args) ==
  IF name \in {"planRenameSymbol", "planFileMove", "planDirectoryMove"}
  THEN LET out == PlannerOutcome(name, args) IN
       IF out.kind = "return"
       THEN [kind |-> "response", isError |-> FALSE,
             text |-> JsonStringify(out.value)]
       ELSE ToolFailure(out.error)
  ELSE ToolFailure(<<"Unknown tool: ", name>>)

CallTool ==
  \E name \in ToolNames : \E args \in ToolArgs(name) :
    /\ Idle
    /\ call' = [op |-> "callTool", name |-> name, args |-> args]
    /\ res' = HandleCallTool(name, args)
    /\ log' = <<>>
    /\ UNCHANGED <<env, prev>>

NextServer == CallTool \/ Respond

SpecServer == InitAll /\ [][NextServer]_vars

(***************************************************************************)
(* The two conversions on their own: an offset to a position, and that     *)
(* position back to an offset against the same text.                       *)
(***************************************************************************)
\* texts of ordinary characters and line breaks (LF, CR, CR LF)
Texts == UNION {[1 .. n -> {"x", LF, CR}] : n \in 0 .. MaxLen}

InitConvert ==
  /\ tsconfig = "ok"
  /\ fs = NominalFs
  /\ fileNames = NominalFileNames
  /\ renameInfo = [canRename |-> TRUE, localizedErrorMessage |-> None]
  /\ locations = None
  /\ reloc = NoReloc
  /\ cwd = <<Sep>>
  /\ call = NoCall
  /\ res = NoRes
  /\ log = <<>>
  /\ prev = NoPrev

\* the conversion of a span's offset, as in step 8 of planRenameSymbol
OffsetToPosition ==
  \E text \in Texts : \E o \in 0 .. Len(text) :
    /\ Idle
    /\ prev.call = NoCall
    /\ call' = [op |-> "offsetToPosition", text |-> text, offset |-> o]
    /\ res' = Return(GetLineAndCharacterOfPosition(text, o))
    /\ log' = <<>>
    /\ UNCHANGED <<env, prev>>

\* the conversion of a request's position, as in step 5 of
\* planRenameSymbol, applied to the position just computed
PositionToOffset ==
  LET p == GetPositionOfLineAndCharacter(prev.call.text, prev.res.value.line,
                                         prev.res.value.character)
  IN /\ Idle
     /\ prev.call.op = "offsetToPosition"
     /\ call' = [op |-> "positionToOffset", text |-> prev.call.text,
                 position |-> prev.res.value]
     /\ res' = IF p.ok THEN Return(p.pos) ELSE Throw(<<"Debug Failure.">>)
     /\ log' = <<>>
     /\ UNCHANGED <<env, prev>>

NextConvert == OffsetToPosition \/ PositionToOffset \/ RespondKeep

SpecConvert == InitConvert /\ [][NextConvert]_vars

(***************************************************************************)
(* Properties of planRenameSymbol.                                         *)
(***************************************************************************)
IsRename == call.op = "planRenameSymbol"

Returned == res.kind = "return"

\* the request's target file, resolved as the claim words it
TargetPath ==
  IF call.params.filePath[1] = "/" THEN call.params.filePath
  ELSE Resolve2(Resolve(call.params.projectRoot), call.params.filePath)

TargetMissing == TargetPath \notin Dirs /\ (TargetPath \in Files => ~fs[TargetPath].exists)

ServiceBuilt ==
  /\ tsconfig = "ok"
  /\ StartsWith(Resolve(call.params.projectRoot) \o <<Sep>>, ConfigDir \o <<Sep>>)

Asked(q) == \E i \in 1 .. Len(log) : log[i].q = q

\* C2: planRenameSymbol never raises: every call returns canRename = true
\* with edits or canRename = false with a reason.
C2_NeverRaises ==
  IsRename =>
    /\ Returned
    /\ \/ res.value.canRename /\ DOMAIN res.value = {"canRename", "edits"}
       \/ ~res.value.canRename /\ DOMAIN res.value = {"canRename", "reason"}

\* C3 (as stated): whenever the target file does not exist the result is
\* canRename = false with reason "File not found: <absolute path>", and the
\* language service is asked nothing.
C3_FileNotFoundAlways ==
  (IsRename /\ TargetMissing) =>
    /\ res = Return([canRename |-> FALSE,
                     reason |-> <<"File not found: ", TargetPath>>])
    /\ log = <<>>

\* C3 (amended): whenever the language service could be constructed and the
\* target file does not exist, the result is canRename = false with reason
\* "File not found: <absolute path>", nothing is raised and the language
\* service is asked nothing.
C3_FileNotFound ==
  (IsRename /\ ServiceBuilt /\ TargetMissing) =>
    /\ res = Return([canRename |-> FALSE,
                     reason |-> <<"File not found: ", TargetPath>>])
    /\ log = <<>>

\* a missing target given relative to a root that has a tsconfig.json
C3_Witness ==
  /\ IsRename /\ ServiceBuilt /\ TargetMissing
  /\ call.params.filePath = <<"n">>
  /\ res.kind = "return" /\ res.value.reason = <<"File not found: ", <<"/", "p", "/", "n">>>>

\* C4: when the language service says the symbol is not renameable, the
\* result is canRename = false, the reason is the service's message or the
\* generic one when it gives none, there is no edits field, and the
\* occurrences are not queried.
C4_NotRenameable ==
  (IsRename /\ Asked("getRenameInfo") /\ ~renameInfo.canRename) =>
    /\ Returned
    /\ res.value.canRename = FALSE
    /\ res.value.reason =
         (IF renameInfo.localizedErrorMessage = None
          THEN <<"Cannot rename this symbol">>
          ELSE renameInfo.localizedErrorMessage[1])
    /\ "edits" \notin DOMAIN res.value
    /\ ~Asked("findRenameLocations")

\* the service refuses with a message of its own
C4_Witness ==
  /\ IsRename /\ Asked("getRenameInfo") /\ ~renameInfo.canRename
  /\ renameInfo.localizedErrorMessage # None
  /\ Returned /\ res.value.reason = <<"You cannot rename this element.">>

\* the occurrences the language service answered with
Occurrences == IF locations = None THEN <<>> ELSE locations[1]

OccurrencesIn(f) ==
  {i \in 1 .. Len(Occurrences) : Occurrences[i].fileName = f /\ fs[f].exists}

EditsFor(plan, f) ==
  {i \in 1 .. Len(plan) : plan[i].filePath = f}

\* C5: a successful plan holds exactly one TextEdit per occurrence whose
\* file exists, each with newText = newName; occurrences in files that no
\* longer exist are dropped and the rename still succeeds.
C5_OneEditPerOccurrence ==
  (IsRename /\ Asked("findRenameLocations")) =>
    /\ Returned /\ res.value.canRename
    /\ \A f \in Files :
         IF OccurrencesIn(f) = {}
         THEN EditsFor(res.value.edits, f) = {}
         ELSE /\ Cardinality(EditsFor(res.value.edits, f)) = 1
              /\ \A i \in EditsFor(res.value.edits, f) :
                   Len(res.value.edits[i].textEdits) = Cardinality(OccurrencesIn(f))
    /\ \A i \in 1 .. Len(res.value.edits) :
         /\ res.value.edits[i].filePath \in Files
         /\ \A k \in 1 .. Len(res.value.edits[i].textEdits) :
              res.value.edits[i].textEdits[k].newText = call.params.newName

\* three occurrences, two of them in a file that is gone: one edit is left
C5_Witness ==
  /\ IsRename /\ Asked("findRenameLocations")
  /\ Len(Occurrences) = 3 /\ ~fs[FM].exists /\ fs[FA].exists
  /\ Returned /\ res.value.canRename
  /\ Len(res.value.edits) = 1 /\ Len(res.value.edits[1].textEdits) = 1

TheLocationsQuery == log[CHOOSE i \in 1 .. Len(log) : log[i].q = "findRenameLocations"]

Given(flag) == IF flag = None THEN FALSE ELSE flag[1]

\* C6: findInStrings and findInComments reach the occurrence query
\* unchanged when given and as false when omitted, each on its own.
C6_FlagsPassedThrough ==
  (IsRename /\ Asked("findRenameLocations")) =>
    /\ TheLocationsQuery.findInStrings = Given(call.params.findInStrings)
    /\ TheLocationsQuery.findInComments = Given(call.params.findInComments)

\* findInStrings omitted, findInComments given as true
C6_Witness ==
  /\ IsRename /\ Asked("findRenameLocations")
  /\ call.params.findInStrings = None /\ call.params.findInComments = Some(TRUE)
  /\ TheLocationsQuery.findInStrings = FALSE
  /\ TheLocationsQuery.findInComments = TRUE

(***************************************************************************)
(* Properties of planFileMove.                                             *)
(***************************************************************************)
IsFileMove == call.op = "planFileMove"

\* the absolute form of a path of the request
AbsoluteForm(p) ==
  IF p[1] = "/" THEN p ELSE Resolve(Resolve(call.params.projectRoot) \o <<Sep>> \o p)

\* C1: whenever the language service can be constructed, planFileMove
\* returns exactly one FsMove, from the absolute oldPath to the absolute
\* newPath, whatever edits were produced, also when both are the same path.
C1_OneFsMove ==
  (IsFileMove /\ ServiceBuilt) =>
    /\ Returned
    /\ res.value.fsMoves = <<[from |-> AbsoluteForm(call.params.oldPath),
                              to |-> AbsoluteForm(call.params.newPath)]>>

\* a file moved onto itself, given once relative and once absolute, with no
\* edits produced
C1_Witness ==
  /\ IsFileMove /\ ServiceBuilt /\ Returned
  /\ call.params.oldPath = <<"a", "/", "f">> /\ call.params.newPath = FA
  /\ res.value.edits = <<>>
  /\ Len(res.value.fsMoves) = 1
  /\ res.value.fsMoves[1].from = FA /\ res.value.fsMoves[1].to = FA

(***************************************************************************)
(* Properties of planDirectoryMove.                                        *)
(***************************************************************************)
IsDirMove == call.op = "planDirectoryMove"

\* a directory of the request, resolved against the project root
AbsoluteDir(d) ==
  IF d[1] = "/" THEN Resolve(d) ELSE Resolve(Resolve(call.params.projectRoot) \o <<Sep>> \o d)

OldDirResolved == AbsoluteDir(call.params.oldDir)

NewDirResolved == AbsoluteDir(call.params.newDir)

Range(seq) == {seq[i] : i \in 1 .. Len(seq)}

MovedFrom == {res.value.fsMoves[i].from : i \in 1 .. Len(res.value.fsMoves)}

\* the project files whose path begins with oldDir and a separator
Selected ==
  LET old == OldDirResolved IN
  {f \in Range(fileNames) :
     /\ Len(f) > Len(old)
     /\ \A i \in 1 .. Len(old) : f[i] = old[i]
     /\ f[Len(old) + 1] = "/"}

\* C7: a project file is selected for moving exactly when its path begins
\* with the resolved oldDir followed by a separator; a file under a sibling
\* directory whose name only starts with oldDir's name is never selected.
C7_PrefixPlusSeparator ==
  (IsDirMove /\ Returned) =>
    LET moved == MovedFrom IN
    /\ moved = Selected
    /\ OldDirResolved = DirA => FA2 \notin moved

\* oldDir = /p/a with /p/a2/f in the project: a's files move, a2's does not
C7_Witness ==
  /\ IsDirMove /\ Returned
  /\ OldDirResolved = DirA /\ FA2 \in Range(fileNames)
  /\ MovedFrom = {FA, FAS}

\* C8: for every FsMove, from relative to oldDir equals to relative to
\* newDir, at any depth, also when one directory contains the other or
\* both are the same.
C8_RelativeStructure ==
  (IsDirMove /\ Returned) =>
    LET old == OldDirResolved
        new == NewDirResolved
    IN \A i \in 1 .. Len(res.value.fsMoves) :
         /\ Relative(old, res.value.fsMoves[i].from)
              = Relative(new, res.value.fsMoves[i].to)
         /\ Split(res.value.fsMoves[i].to)
              = Split(new) \o SubSeq(Split(res.value.fsMoves[i].from),
                                      Len(Split(old)) + 1,
                                      Len(Split(res.value.fsMoves[i].from)))

\* a nested file moved into a descendant of its own directory
C8_Witness ==
  /\ IsDirMove /\ Returned
  /\ OldDirResolved = DirA /\ NewDirResolved = DirAS
  /\ \E i \in 1 .. Len(res.value.fsMoves) :
       /\ res.value.fsMoves[i].from = FAS
       /\ res.value.fsMoves[i].to = <<"/", "p", "/", "a", "/", "s", "/", "s", "/", "g">>

\* C9: exactly one FsMove per selected project file and none for anything
\* else; with no project file under oldDir the plan is empty and nothing
\* is raised.
C9_OneMovePerFile ==
  (IsDirMove /\ ServiceBuilt) =>
    LET sel == Selected IN
    /\ Returned
    /\ Len(res.value.fsMoves) = Cardinality(sel)
    /\ \A f \in sel :
         Cardinality({i \in 1 .. Len(res.value.fsMoves) :
                        res.value.fsMoves[i].from = f}) = 1
    /\ \A i \in 1 .. Len(res.value.fsMoves) :
         /\ res.value.fsMoves[i].from \in sel
         /\ res.value.fsMoves[i].from \notin Dirs
    /\ sel = {} => res.value = [edits |-> <<>>, fsMoves |-> <<>>]

\* a directory that does not exist
C9_Witness ==
  /\ IsDirMove /\ ServiceBuilt /\ Returned
  /\ call.params.oldDir = <<"z">>
  /\ res.value = [edits |-> <<>>, fsMoves |-> <<>>]

\* the text of a file as a conversion reads it
Readable(x) == x \in Files /\ fs[x].exists /\ fs[x].text # <<>>

\* what the sub-move of the i-th FsMove contributes to file x: the
\* service's replacements for x, converted against x's text
RECURSIVE Flatten(_, _)
Flatten(seqs, j) ==
  IF j > Len(seqs) THEN <<>> ELSE seqs[j] \o Flatten(seqs, j + 1)

SubMoveEdits(i, x) ==
  LET from == res.value.fsMoves[i].from
      to == res.value.fsMoves[i].to
      answer == reloc[from]
  IN Flatten([j \in 1 .. Len(answer) |->
                IF answer[j].fileName = x /\ Readable(x)
                THEN [k \in 1 .. Len(answer[j].spans) |->
                        [range |-> SpanRange(fs[x].text, answer[j].spans[k]),
                         newText |-> to]]
                ELSE <<>>], 1)

\* C10: each filePath occurs in at most one entry of the plan, and an
\* entry's textEdits is the concatenation, in the order of the sub-moves,
\* of what each sub-move produced for that file.
C10_MergedByFile ==
  (IsDirMove /\ Returned) =>
    /\ \A i, j \in 1 .. Len(res.value.edits) :
         res.value.edits[i].filePath = res.value.edits[j].filePath => i = j
    /\ \A e \in 1 .. Len(res.value.edits) :
         res.value.edits[e].textEdits
           = Flatten([i \in 1 .. Len(res.value.fsMoves) |->
                        SubMoveEdits(i, res.value.edits[e].filePath)], 1)
    /\ \A x \in Files :
         (\E i \in 1 .. Len(res.value.fsMoves) : SubMoveEdits(i, x) # <<>>)
           => \E e \in 1 .. Len(res.value.edits) : res.value.edits[e].filePath = x

\* the sub-moves of a/s/g and of a/f both rewrite the importer: its entry
\* holds the edits of a/s/g's sub-move first, then those of a/f's
C10_Witness ==
  /\ IsDirMove /\ Returned
  /\ Len(res.value.fsMoves) = 2
  /\ res.value.fsMoves[1].from = FAS /\ res.value.fsMoves[2].from = FA
  /\ \E e \in 1 .. Len(res.value.edits) :
       /\ res.value.edits[e].filePath = FM
       /\ Len(res.value.edits[e].textEdits) = 3
       /\ res.value.edits[e].textEdits[1].newText = res.value.fsMoves[1].to
       /\ res.value.edits[e].textEdits[2].newText = res.value.fsMoves[2].to
       /\ res.value.edits[e].textEdits[3].newText = res.value.fsMoves[2].to

(***************************************************************************)
(* The directory plan against the single-file plans.                       *)
(***************************************************************************)
\* the edits a plan holds for file x, over all its entries
PlanEditsFor(plan, x) ==
  Flatten([e \in 1 .. Len(plan.edits) |->
             IF plan.edits[e].filePath = x THEN plan.edits[e].textEdits
             ELSE <<>>], 1)

\* planFileMove(f, destinationOf(f)) for the i-th FsMove of the directory
\* plan, on the same project and the same disk
SingleFilePlan(i) ==
  PlanFileMoveRun([projectRoot |-> call.params.projectRoot,
                   oldPath |-> res.value.fsMoves[i].from,
                   newPath |-> res.value.fsMoves[i].to]).res

\* C11: for every file X and every file f the directory move selects, the
\* directory plan's entry for X contains every TextEdit planFileMove(f,
\* destinationOf(f)) produces for X.
C11_ContainsSingleFilePlans ==
  (IsDirMove /\ Returned) =>
    \A i \in 1 .. Len(res.value.fsMoves) :
      LET single == SingleFilePlan(i) IN
      /\ single.kind = "return"
      /\ \A x \in Files :
           Range(PlanEditsFor(single.value, x))
             \subseteq Range(PlanEditsFor(res.value, x))

(***************************************************************************)
(* Replacements in files that cannot be read.                              *)
(***************************************************************************)
IsMove == IsFileMove \/ IsDirMove

\* ts.sys.readFile gives no text for x
Unreadable(x) == x \notin Files \/ ~fs[x].exists

\* C14: a plan of planFileMove or planDirectoryMove holds no TextEdit for
\* a file whose text cannot be read, and every TextEdit's range is the
\* conversion of a span of the service's answer against the file's text.
C14_UnreadableLeftOut ==
  (IsMove /\ Returned) =>
    \A e \in 1 .. Len(res.value.edits) :
      LET x == res.value.edits[e].filePath IN
      Unreadable(x) => res.value.edits[e].textEdits = <<>>

(***************************************************************************)
(* Ranges of one file's edits.                                             *)
(***************************************************************************)
\* line/character order
PosLess(a, b) ==
  a.line < b.line \/ (a.line = b.line /\ a.character < b.character)

\* r1.end > r2.start and r2.end > r1.start
RangesOverlap(r1, r2) == PosLess(r2.start, r1.end) /\ PosLess(r1.start, r2.end)

\* C12: no two TextEdits of one FileTextEdits entry have overlapping
\* ranges, and no two non-empty edits of one entry have the same range.
C12_NoOverlap ==
  (IsMove /\ Returned) =>
    \A e \in 1 .. Len(res.value.edits) :
      LET te == res.value.edits[e].textEdits IN
      \A k, l \in 1 .. Len(te) :
        k # l => ~RangesOverlap(te[k].range, te[l].range)

(***************************************************************************)
(* References between two files that move together.                        *)
(***************************************************************************)
\* C13: with A and B both moved and A referring to B, the plan holds no
\* TextEdit on A's reference to B.
C13_InternalReferenceKept ==
  (IsDirMove /\ Returned) =>
    LET moved == MovedFrom IN
    \A a \in moved, b \in moved :
      \A j \in 1 .. Len(reloc[b]) :
        a # b /\ reloc[b][j].fileName = a /\ Readable(a) =>
          \A k \in 1 .. Len(reloc[b][j].spans) :
            \A t \in Range(PlanEditsFor(res.value, a)) :
              t.range # SpanRange(fs[a].text, reloc[b][j].spans[k])

(***************************************************************************)
(* A language service that cannot be constructed.                          *)
(***************************************************************************)
\* no tsconfig.json in or above the project root
ConfigNotFound ==
  \/ tsconfig = "missing"
  \/ ~StartsWith(Resolve(call.params.projectRoot) \o <<Sep>>, ConfigDir \o <<Sep>>)

\* the message of the construction error
ConstructionMessage ==
  IF ConfigNotFound
  THEN <<"tsconfig.json not found in or above: ", Resolve(call.params.projectRoot)>>
  ELSE IF tsconfig = "malformed"
  THEN <<"Failed to read tsconfig.json: ", ConfigDir>>
  ELSE <<"Failed to parse tsconfig.json: ", ConfigDir>>

\* C15: when the language service cannot be constructed, planFileMove and
\* planDirectoryMove raise one error, the construction error, and return
\* no plan; the service is asked nothing.
C15_MoveAborts ==
  (IsMove /\ ~ServiceBuilt) =>
    /\ res = Throw(ConstructionMessage)
    /\ log = <<>>

\* each planner aborted, once for each of the three construction errors
C15_Witness ==
  /\ IsMove /\ ~ServiceBuilt
  /\ res.kind = "throw"
  /\ \/ IsFileMove /\ tsconfig = "invalid"
     \/ IsDirMove /\ tsconfig = "malformed"
     \/ IsDirMove /\ tsconfig = "ok" /\ call.params.projectRoot = DirQ

\* C16: when the language service cannot be constructed, planRenameSymbol
\* returns canRename = false with the construction error's message as
\* reason, whether or not the target file exists, and asks the service
\* nothing.
C16_RenameReportsConstruction ==
  (IsRename /\ ~ServiceBuilt) =>
    /\ res = Return([canRename |-> FALSE, reason |-> ConstructionMessage])
    /\ res.value.reason[1] \in {"tsconfig.json not found in or above: ",
                                 "Failed to read tsconfig.json: ",
                                 "Failed to parse tsconfig.json: "}
    /\ log = <<>>

\* no tsconfig.json and a target file that does not exist: the reason is
\* the construction error, not "File not found"
C16_Witness ==
  /\ IsRename /\ ConfigNotFound /\ TargetMissing
  /\ Returned /\ ~res.value.canRename
  /\ res.value.reason[1] = "tsconfig.json not found in or above: "

(***************************************************************************)
(* Properties of every plan.                                               *)
(***************************************************************************)
\* the call returned a plan
HasPlan == Returned /\ (IsRename => res.value.canRename)

Abs(p) == Len(p) > 0 /\ p[1] = "/"

\* C17: every filePath, from and to of a returned plan is absolute, for
\* relative and absolute inputs alike; the relative paths of a move
\* request are resolved against the project root.
C17_AbsolutePaths ==
  HasPlan =>
    /\ \A e \in 1 .. Len(res.value.edits) : Abs(res.value.edits[e].filePath)
    /\ IsMove =>
         \A i \in 1 .. Len(res.value.fsMoves) :
           /\ Abs(res.value.fsMoves[i].from) /\ Abs(res.value.fsMoves[i].to)
           /\ IsFileMove =>
                /\ res.value.fsMoves[i].from = AbsoluteForm(call.params.oldPath)
                /\ res.value.fsMoves[i].to = AbsoluteForm(call.params.newPath)
           /\ IsDirMove =>
                /\ StartsWith(res.value.fsMoves[i].from, OldDirResolved \o <<"/">>)
                /\ StartsWith(res.value.fsMoves[i].to, NewDirResolved \o <<"/">>)

\* a relative project root, a relative oldPath and a relative newPath
C17_Witness ==
  /\ IsFileMove /\ HasPlan
  /\ ~Abs(call.params.projectRoot)
  /\ ~Abs(call.params.oldPath) /\ ~Abs(call.params.newPath)
  /\ res.value.fsMoves = <<[from |-> FA, to |-> <<"/", "p", "/", "b", "/", "h">>]>>
  /\ Len(res.value.edits) > 0

\* C18: no step of any sequence of calls, successful or failing, changes
\* a file on disk or the project configuration.
C18_NoFilesystemChange == [][fs' = fs /\ tsconfig' = tsconfig]_vars

\* a call that failed, then a call that returned a plan with a move
C18_Witness ==
  /\ prev.call # NoCall /\ prev.res.kind = "throw"
  /\ IsDirMove /\ Returned
  /\ Len(res.value.fsMoves) > 0

\* the request being answered is the earlier request again
SameAgain == ~Idle /\ prev.call = call

\* C19 (as stated): two invocations with identical parameters and
\* identical filesystem contents return identical results, whatever the
\* working directory of the process.
C19_AmbientIndependent == SameAgain => res = prev.res

\* C19 (amended): they do when projectRoot is absolute or the working
\* directory is the same; a relative projectRoot is resolved against the
\* working directory.
C19_AbsoluteRootIndependent ==
  (SameAgain /\ (Abs(call.params.projectRoot) \/ prev.cwd = cwd)) =>
    res = prev.res

\* an absolute project root, the same plan from two working directories
C19_Witness ==
  /\ SameAgain /\ Abs(call.params.projectRoot) /\ prev.cwd # cwd
  /\ HasPlan /\ Len(res.value.edits) > 0
  /\ res = prev.res

NonNegative(pos) == pos.line >= 0 /\ pos.character >= 0

\* C20: every TextEdit of a returned plan has non-negative line and
\* character values and an end that is not before its start in
\* (line, character) order.
C20_ValidRanges ==
  HasPlan =>
    \A e \in 1 .. Len(res.value.edits) :
      \A k \in 1 .. Len(res.value.edits[e].textEdits) :
        LET r == res.value.edits[e].textEdits[k].range IN
        /\ NonNegative(r.start) /\ NonNegative(r.end)
        /\ ~PosLess(r.end, r.start)

\* an edit on the second line of a file, and one in a file that cannot be
\* read
C20_Witness ==
  /\ HasPlan
  /\ \E e \in 1 .. Len(res.value.edits) :
       \E k \in 1 .. Len(res.value.edits[e].textEdits) :
         LET r == res.value.edits[e].textEdits[k].range IN
         \/ r.start.line = 1 /\ PosLess(r.start, r.end)
         \/ Unreadable(res.value.edits[e].filePath) /\ r.start.character > 0


C22_RoundTrip ==
  call.op = "positionToOffset" => res = Return(prev.call.offset)

\* the end of a text whose last line break is CR LF, and an offset
\* between the CR and the LF
C22_Witness ==
  /\ call.op = "positionToOffset"
  /\ call.text = <<"x", CR, LF>>
  /\ \/ prev.call.offset = 3 /\ call.position = [line |-> 1, character |-> 0]
     \/ prev.call.offset = 2 /\ call.position = [line |-> 0, character |-> 2]
  /\ res = Return(prev.call.offset)


(***************************************************************************)
(* A file's edits against what the service emitted for it.                 *)
(***************************************************************************)
\* the replacements the service emitted for file x during the call, in
\* the order it emitted them: [span, newText]
Emitted(x) ==
  IF IsRename
  THEN LET locs == SelectSeq(Nullish(locations, <<>>), LAMBDA l : l.fileName = x)
       IN [k \in 1 .. Len(locs) |->
             [span |-> locs[k].textSpan, newText |-> call.params.newName]]
  ELSE Flatten([i \in 1 .. Len(res.value.fsMoves) |->
                  LET answer == IF res.value.fsMoves[i].from \in Files
                                THEN reloc[res.value.fsMoves[i].from] ELSE <<>>
                  IN Flatten([j \in 1 .. Len(answer) |->
                                IF answer[j].fileName = x
                                THEN [k \in 1 .. Len(answer[j].spans) |->
                                        [span |-> answer[j].spans[k],
                                         newText |-> res.value.fsMoves[i].to]]
                                ELSE <<>>], 1)], 1)

\* C23: for each file of a plan whose text can be read, the textEdits are
\* the service's replacements for that file, one edit per replacement, in
\* the order the service emitted them, also when two of them coincide.
C23_ServiceOrderKept ==
  HasPlan =>
    \A e \in 1 .. Len(res.value.edits) :
      LET x == res.value.edits[e].filePath
          te == res.value.edits[e].textEdits
          em == Emitted(x)
      IN Readable(x) =>
           /\ Len(te) = Len(em)
           /\ \A k \in 1 .. Len(te) :
                /\ te[k].range = SpanRange(fs[x].text, em[k].span)
                /\ te[k].newText = em[k].newText

\* planFileMove kept two replacements of the same span
C23_Witness ==
  /\ IsFileMove /\ HasPlan
  /\ \E e \in 1 .. Len(res.value.edits) :
       LET te == res.value.edits[e].textEdits IN
       /\ Readable(res.value.edits[e].filePath)
       /\ Len(te) = 2
       /\ te[1].range = te[2].range


(***************************************************************************)
(* Replacements that partially overlap.                                    *)
(***************************************************************************)
\* two replacements of one file intersect without being the same span
PartialOverlap(answer) ==
  \E j \in 1 .. Len(answer) :
    \E k, l \in 1 .. Len(answer[j].spans) :
      /\ answer[j].spans[k] # answer[j].spans[l]
      /\ answer[j].spans[k].start + answer[j].spans[k].length > answer[j].spans[l].start
      /\ answer[j].spans[l].start + answer[j].spans[l].length > answer[j].spans[k].start

\* the service answered a query of this call with such replacements
AnsweredPartialOverlap ==
  \E i \in 1 .. Len(log) :
    /\ log[i].q = "getEditsForFileRename"
    /\ log[i].oldPath \in Files
    /\ PartialOverlap(reloc[log[i].oldPath])

\* C24: when the service emits two partially overlapping replacements for
\* one file, the move planner raises an error and returns no plan.
C24_PartialOverlapRefused ==
  (IsMove /\ AnsweredPartialOverlap) => res.kind = "throw"


C29_EntriesExist ==
  (IsDirMove /\ Returned) =>
    \A e \in 1 .. Len(res.value.edits) : ~Unreadable(res.value.edits[e].filePath)

(***************************************************************************)
(* The handler of tool calls.                                              *)
(***************************************************************************)
IsToolCall == call.op = "callTool"

\* what the planner named by the request does with its arguments
NamedPlanner ==
  CASE call.name = "planRenameSymbol" -> PlanRenameSymbolRun(call.args).res
    [] call.name = "planFileMove" -> PlanFileMoveRun(call.args).res
    [] call.name = "planDirectoryMove" -> PlanDirectoryMoveRun(call.args).res

\* C30: every tool call is answered with a response: the named planner's
\* result as JSON text, or, for an unknown tool or a planner that raised,
\* isError = true with the text {error: <message>}; after any response the
\* server takes the next request.
C30_AlwaysResponds ==
  /\ Idle => ENABLED CallTool
  /\ IsToolCall =>
       /\ res.kind = "response"
       /\ ENABLED Respond
       /\ call.name = "planNothing" =>
            /\ res.isError
            /\ res.text = JsonStringify([error |-> <<"Unknown tool: ", call.name>>])
       /\ (call.name # "planNothing" /\ call.args = NoArgs) =>
            /\ res.isError
            /\ DOMAIN res.text.json = {"error"}
       /\ (call.name # "planNothing" /\ call.args # NoArgs) =>
            LET out == NamedPlanner IN
            /\ out.kind = "return" =>
                 ~res.isError /\ res.text = JsonStringify(out.value)
            /\ out.kind = "throw" =>
                 res.isError /\ res.text = JsonStringify([error |-> out.error])

\* a planner raised (no tsconfig.json for a file move): the answer is an
\* error response
C30_Witness ==
  /\ IsToolCall /\ call.name = "planFileMove" /\ call.args # NoArgs
  /\ NamedPlanner.kind = "throw"
  /\ res.kind = "response" /\ res.isError
  /\ res.text.json.error[1] = "tsconfig.json not found in or above: "


(***************************************************************************)
(* Nothing kept between calls.                                             *)
(***************************************************************************)
IsPlannerCall == IsRename \/ IsFileMove \/ IsDirMove

\* what the request would be answered as the first call on the disk as it
\* is now
AsFirstCall ==
  CASE IsRename -> PlanRenameSymbolRun(call.params).res
    [] IsFileMove -> PlanFileMoveRun(call.params).res
    [] IsDirMove -> PlanDirectoryMoveRun(call.params).res

RaceDone == call # NoCall /\ IsRename /\ call.pc = "done"

\* left alone, the steps give what the planner gives in one piece
RaceAgreesWithRun ==
  (RaceDone /\ ~call.deleted /\ ~call.rewritten) =>
    /\ res = PlanRenameSymbolRun(call.params).res
    /\ log = PlanRenameSymbolRun(call.params).log

\* C25: when a file is deleted by another process during the call, also
\* between the existence check and the read, the planner raises nothing
\* and returns a plan.
C25_DeletionTolerated ==
  (RaceDone /\ call.deleted) => Returned

\* the texts the importer has had
Versions == {Text1, Text2}

\* C26: all TextEdits of one entry are positions in one version of the
\* file's text, also when the file is rewritten during the call.
C26_OneSnapshot ==
  (RaceDone /\ HasPlan) =>
    \A e \in 1 .. Len(res.value.edits) :
      LET x == res.value.edits[e].filePath
          te == res.value.edits[e].textEdits
          em == Emitted(x)
      IN \E t \in Versions :
           \A k \in 1 .. Len(te) :
             \E l \in 1 .. Len(em) : te[k].range = SpanRange(t, em[l].span)

=============================================================================
